---- MODULE Spec2Model ----
(***************************************************************************)
(* A model of trayme (src/src/main.rs): main() builds the tray icon,       *)
(* spawns the child process, shows the start notification and then hands   *)
(* a closure to the event loop.  Each invocation of that closure (a tick)  *)
(* checks the Exit guard and otherwise calls run_event_loop, which polls   *)
(* the child process and then the tray-menu channel.                       *)
(*                                                                         *)
(* The outcomes of the OS calls (try_wait, kill, Notification::show,       *)
(* get_logs_dir, open::that, spawn) are inputs of the actions.  The child  *)
(* process and the user clicking the tray menu are environment actions.    *)
(***************************************************************************)
EXTENDS Integers, Sequences, FiniteSets

\* Bounds of the model.
MaxEvents == 3      \* menu events delivered to the channel over one run
MaxExitCode == 1    \* the child exits with a code in 0..MaxExitCode

VARIABLES
    pc,             \* position of main(): init, logging, tray_built,
                    \*   spawned, loop, error (main returned Err), panicked
    control_flow,   \* tao's ControlFlow cell handed to the closure
    tray,           \* the Option<TrayIcon> cell: "None" or "Some"
    child_proc,     \* the process::Child handle and the process behind it
    menu_channel,   \* MenuEvent::receiver(): queued identifiers, oldest first
    arrived,        \* number of menu events delivered so far
    notifications,  \* notifications shown so far, oldest first
    log,            \* records written to the logger, oldest first
    kill_attempts,  \* calls of child_proc.kill() so far
    open_attempts,  \* calls of open::that() so far
    tray_takes,     \* calls of tray.take() so far
    last,           \* what the most recent invocation of the closure did
    menu,           \* the items of the tray menu, <<>> until it is built
    conv            \* a conversion of TrayMessage under test (ConvSpec)

vars == <<pc, control_flow, tray, child_proc, menu_channel, arrived,
          notifications, log, kill_attempts, open_attempts, tray_takes, last,
          menu, conv>>

----------------------------------------------------------------------------
\* TrayMessage and its two conversions.

\* TrayMessage::VARIANTS, in declaration order.
VARIANTS == <<"Kill", "ShowLogs">>

\* to_string giving the variant's name, as a derived Debug would.
to_string_Debug(msg) == msg

\* impl Display for TrayMessage.
to_string(msg) == IF msg = "Kill" THEN "Kill" ELSE "Show Logs"

\* FromStr with a default variant in place of the error.
FromStr_DefaultKill(s) ==
    IF s = "Show Logs" THEN [ok |-> TRUE, msg |-> "ShowLogs"]
    ELSE [ok |-> TRUE, msg |-> "Kill"]

\* impl FromStr for TrayMessage.
FromStr(s) ==
    IF s = "Kill" THEN [ok |-> TRUE, msg |-> "Kill"]
    ELSE IF s = "Show Logs" THEN [ok |-> TRUE, msg |-> "ShowLogs"]
    ELSE [ok |-> FALSE, msg |-> "VariantNotFound"]

\* build_tray_menu with the variant's name as the id instead of its label.
build_tray_menu_NameIds ==
    [i \in 1..Len(VARIANTS) |->
        [text |-> to_string(VARIANTS[i]), id |-> VARIANTS[i]]]

\* build_tray_menu: one item per variant, text and id both msg.to_string().
build_tray_menu ==
    [i \in 1..Len(VARIANTS) |->
        [text |-> to_string(VARIANTS[i]), id |-> to_string(VARIANTS[i])]]

\* Identifiers a MenuEvent can carry: those of the built menu and one that
\* no item of the menu has (MenuId is an arbitrary string).
EventIds == {build_tray_menu[i].id : i \in 1..Len(build_tray_menu)} \cup {"Restart"}

\* Exit codes of the child.
ExitCodes == 0..MaxExitCode

\* ExitStatus::success().
Success(code) == code = 0

----------------------------------------------------------------------------
\* The record describing one invocation of the closure.

NoTick ==
    [pre |-> "None", queried |-> "NotQueried", recv |-> "NoRecv",
     kills |-> 0, opens |-> 0, notifs |-> 0, takes |-> 0, err |-> "None",
     post |-> "None"]

\* The closure returned at its guard: nothing was done.
GuardedTick ==
    [pre |-> "Exit", queried |-> "NotQueried", recv |-> "NoRecv",
     kills |-> 0, opens |-> 0, notifs |-> 0, takes |-> 0, err |-> "None",
     post |-> "Exit"]

\* The record describing a conversion under test.
\* No conversion is under way.
NoConv ==
    [step |-> "none", ident |-> "", msg |-> "None", label |-> "",
     parsed |-> [ok |-> FALSE, msg |-> "None"]]

----------------------------------------------------------------------------
\* run_event_loop, as a function of the outcomes of the OS calls it makes:
\*   w    the outcome of child_proc.try_wait(): "Err", "None" or "Some"
\*   nOk  Notification::show() succeeds
\*   kOk  child_proc.kill() succeeds
\*   dOk  get_logs_dir() succeeds
\*   oOk  open::that() succeeds
\* The result says how the call ended (Ok(cf), Err(err) or a panic) and what
\* it did on the way.

Result(kind, cf, err, w) ==
    [kind |-> kind, cf |-> cf, err |-> err, queried |-> w, recv |-> "NoRecv",
     chan |-> menu_channel, proc |-> child_proc,
     kills |-> 0, opens |-> 0, notes |-> <<>>, logs |-> <<>>]

\* Outcomes try_wait can have for the child as it is now.
TryWaitOutcomes ==
    IF child_proc.state = "Running" THEN {"None", "Err"} ELSE {"Some", "Err"}

\* show_notification: the notification shown and whether the call returned.
show_notification(title, body, nOk) ==
    [returned |-> nOk,
     notes |-> IF nOk THEN <<[title |-> title, body |-> body]>> ELSE <<>>,
     logs |-> <<[level |-> "debug", text |-> "Showing notification", arg |-> title]>>]

\* QueryFailed with the error swallowed instead of propagated.
QueryFailed_Swallowed(w) == Result("Ok", "Poll", "None", w)

\* `child_proc.try_wait()?` failed: the error leaves run_event_loop at once.
QueryFailed(w) == Result("Err", "None", "try_wait failed", w)

\* KillBranch without its `return Ok(ControlFlow::Exit)`.
KillBranch_NoReturn(base, kOk) ==
    [base EXCEPT !.kind = "Ok", !.cf = "Poll", !.kills = 1]

\* TrayMessage::Kill: lines 106-109.
KillBranch(base, kOk) ==
    IF kOk
    THEN [base EXCEPT !.kind = "Ok", !.cf = "Exit", !.kills = 1,
                      !.proc = IF child_proc.state = "Running"
                               THEN [child_proc EXCEPT !.state = "Killed"]
                               ELSE child_proc]
    ELSE [base EXCEPT !.kind = "Err", !.err = "Failed to kill child process",
                      !.kills = 1]

\* TrayMessage::ShowLogs: lines 110-113, then line 117.
ShowLogsBranch(base, dOk, oOk) ==
    IF ~dOk THEN [base EXCEPT !.kind = "Err", !.err = "get_logs_dir failed"]
    ELSE IF ~oOk THEN [base EXCEPT !.kind = "Err", !.err = "Failed to open logs dir",
                                   !.opens = 1]
    ELSE [base EXCEPT !.kind = "Ok", !.cf = "Poll", !.opens = 1]

\* MenuBranch draining the channel (`while let Ok(event)`) and acting on
\* the first event only.
MenuBranch_Drain(w, kOk, dOk, oOk) ==
    IF menu_channel = <<>> THEN Result("Ok", "Poll", "None", w)
    ELSE
        LET event == Head(menu_channel)
            parsed == FromStr(event)
            base == [Result("Ok", "Poll", "None", w) EXCEPT
                        !.recv = event,
                        !.chan = <<>>,
                        !.logs = <<[level |-> "debug", text |-> "event", arg |-> event]>>]
        IN  IF ~parsed.ok THEN [base EXCEPT !.kind = "Err", !.err = parsed.msg]
            ELSE IF parsed.msg = "Kill" THEN KillBranch(base, kOk)
            ELSE ShowLogsBranch(base, dOk, oOk)

\* MenuBranch reading the head of the channel without removing it.
MenuBranch_Peek(w, kOk, dOk, oOk) ==
    IF menu_channel = <<>> THEN Result("Ok", "Poll", "None", w)
    ELSE
        LET event == Head(menu_channel)
            parsed == FromStr(event)
            base == [Result("Ok", "Poll", "None", w) EXCEPT
                        !.recv = event,
                        !.logs = <<[level |-> "debug", text |-> "event", arg |-> event]>>]
        IN  IF ~parsed.ok THEN [base EXCEPT !.kind = "Err", !.err = parsed.msg]
            ELSE IF parsed.msg = "Kill" THEN KillBranch(base, kOk)
            ELSE ShowLogsBranch(base, dOk, oOk)

\* MenuBranch treating an empty channel as an error (`try_recv()?`).
MenuBranch_EmptyIsError(w, kOk, dOk, oOk) ==
    IF menu_channel = <<>> THEN Result("Err", "None", "channel empty", w)
    ELSE
        LET event == Head(menu_channel)
            parsed == FromStr(event)
            base == [Result("Ok", "Poll", "None", w) EXCEPT
                        !.recv = event,
                        !.chan = Tail(menu_channel),
                        !.logs = <<[level |-> "debug", text |-> "event", arg |-> event]>>]
        IN  IF ~parsed.ok THEN [base EXCEPT !.kind = "Err", !.err = parsed.msg]
            ELSE IF parsed.msg = "Kill" THEN KillBranch(base, kOk)
            ELSE ShowLogsBranch(base, dOk, oOk)

\* The child is still running: lines 100-117.
MenuBranch(w, kOk, dOk, oOk) ==
    IF menu_channel = <<>> THEN Result("Ok", "Poll", "None", w)
    ELSE
        LET event == Head(menu_channel)
            parsed == FromStr(event)
            base == [Result("Ok", "Poll", "None", w) EXCEPT
                        !.recv = event,
                        !.chan = Tail(menu_channel),
                        !.logs = <<[level |-> "debug", text |-> "event", arg |-> event]>>]
        IN  IF ~parsed.ok THEN [base EXCEPT !.kind = "Err", !.err = parsed.msg]
            ELSE IF parsed.msg = "Kill" THEN KillBranch(base, kOk)
            ELSE ShowLogsBranch(base, dOk, oOk)

\* ExitBranch with the menu event handled before the exit is acted on.
ExitBranch_MenuFirst(w, nOk) ==
    IF menu_channel # <<>> THEN MenuBranch(w, TRUE, TRUE, TRUE)
    ELSE Result("Ok", "Exit", "None", w)

\* The child has exited: lines 91-97.
ExitBranch(w, nOk) ==
    LET status == child_proc.code
        shown == show_notification("Process exited", <<"Exit code", status>>, nOk)
        entry == IF Success(status)
                 THEN [level |-> "info", text |-> "Command exited successfully", arg |-> status]
                 ELSE [level |-> "error", text |-> "Command exited with status", arg |-> status]
        base == [Result("Ok", "Exit", "None", w) EXCEPT
                    !.proc = [child_proc EXCEPT !.reaped = TRUE],
                    !.notes = shown.notes,
                    !.logs = <<entry>> \o shown.logs]
    IN  IF shown.returned THEN base ELSE [base EXCEPT !.kind = "Panic", !.cf = "None"]

run_event_loop(w, nOk, kOk, dOk, oOk) ==
    IF w = "Err" THEN QueryFailed(w)
    ELSE IF w = "Some" THEN ExitBranch(w, nOk)
    ELSE MenuBranch(w, kOk, dOk, oOk)

----------------------------------------------------------------------------
\* main().

Init ==
    /\ pc = "init"
    /\ control_flow = "Poll"
    /\ tray = "None"
    /\ child_proc = [state |-> "NotSpawned", code |-> -1, reaped |-> FALSE]
    /\ menu_channel = <<>>
    /\ arrived = 0
    /\ notifications = <<>>
    /\ log = <<>>
    /\ kill_attempts = 0
    /\ open_attempts = 0
    /\ tray_takes = 0
    /\ last = NoTick
    /\ menu = <<>>
    /\ conv = NoConv

\* init_logging()?
InitLogging ==
    /\ pc = "init"
    /\ \E ok \in BOOLEAN : pc' = IF ok THEN "logging" ELSE "error"
    /\ UNCHANGED <<control_flow, tray, child_proc, menu_channel, arrived,
                   notifications, log, kill_attempts, open_attempts,
                   tray_takes, last, menu, conv>>

\* let mut tray = Some(build_tray(&full_cmd_string)?);
BuildTray ==
    /\ pc = "logging"
    /\ \E ok \in BOOLEAN :
        IF ok THEN pc' = "tray_built" /\ tray' = "Some" /\ menu' = build_tray_menu
              ELSE pc' = "error" /\ tray' = tray /\ menu' = menu
    /\ UNCHANGED <<control_flow, child_proc, menu_channel, arrived,
                   notifications, log, kill_attempts, open_attempts,
                   tray_takes, last, conv>>

\* SpawnProcess with the spawn error ignored instead of returned.
SpawnProcess_IgnoreFailure ==
    /\ pc = "tray_built"
    /\ \E ok \in BOOLEAN :
        /\ pc' = "spawned"
        /\ child_proc' = IF ok THEN [child_proc EXCEPT !.state = "Running"]
                              ELSE child_proc
        /\ log' = log
        /\ tray' = tray
    /\ UNCHANGED <<control_flow, menu_channel, arrived, notifications,
                   kill_attempts, open_attempts, tray_takes, last, menu, conv>>

\* let mut child_proc = spawn_process(&cmd)?;  A failure returns from main,
\* which drops the tray icon.
SpawnProcess ==
    /\ pc = "tray_built"
    /\ \E ok \in BOOLEAN :
        IF ok
        THEN /\ pc' = "spawned"
             /\ child_proc' = [child_proc EXCEPT !.state = "Running"]
             /\ log' = Append(log, [level |-> "info", text |-> "Spawning command", arg |-> "cmd"])
             /\ tray' = tray
        ELSE /\ pc' = "error"
             /\ tray' = "None"
             /\ UNCHANGED <<child_proc, log>>
    /\ UNCHANGED <<control_flow, menu_channel, arrived, notifications,
                   kill_attempts, open_attempts, tray_takes, last, menu, conv>>

\* show_notification("Process started!", &full_cmd_string); event_loop.run
StartNotification ==
    /\ pc = "spawned"
    /\ \E nOk \in BOOLEAN :
        LET shown == show_notification("Process started!", <<"full_cmd_string">>, nOk)
        IN  /\ pc' = IF shown.returned THEN "loop" ELSE "panicked"
            /\ notifications' = notifications \o shown.notes
            /\ log' = log \o shown.logs
    /\ UNCHANGED <<control_flow, tray, child_proc, menu_channel, arrived,
                   kill_attempts, open_attempts, tray_takes, last, menu, conv>>

\* ExitGuard left out.
ExitGuard_Missing == FALSE

\* The guard at the top of the closure.
ExitGuard == control_flow = "Exit"

\* What the closure does with the value run_event_loop returned: the new
\* control flow, the tray cell and the number of tray.take() calls.
Dispatch(r) ==
    IF r.kind = "Ok" THEN [cf |-> r.cf, tray |-> tray, takes |-> 0, logs |-> <<>>]
    ELSE [cf |-> "Exit", tray |-> "None", takes |-> 1,
          logs |-> <<[level |-> "error", text |-> "Error", arg |-> r.err]>>]

\* One invocation of the closure handed to event_loop.run.
Tick ==
    /\ pc = "loop"
    /\ IF ExitGuard
       THEN /\ last' = GuardedTick
            /\ UNCHANGED <<pc, control_flow, tray, child_proc, menu_channel,
                           notifications, log, kill_attempts, open_attempts,
                           tray_takes>>
       ELSE \E w \in TryWaitOutcomes : \E nOk, kOk, dOk, oOk \in BOOLEAN :
            LET r == run_event_loop(w, nOk, kOk, dOk, oOk)
                d == Dispatch(r)
                panic == r.kind = "Panic"
            IN  /\ child_proc' = r.proc
                /\ menu_channel' = r.chan
                /\ notifications' = notifications \o r.notes
                /\ kill_attempts' = kill_attempts + r.kills
                /\ open_attempts' = open_attempts + r.opens
                /\ pc' = IF panic THEN "panicked" ELSE pc
                /\ control_flow' = IF panic THEN control_flow ELSE d.cf
                /\ tray' = IF panic THEN tray ELSE d.tray
                /\ tray_takes' = IF panic THEN tray_takes ELSE tray_takes + d.takes
                /\ log' = IF panic THEN log \o r.logs ELSE log \o r.logs \o d.logs
                /\ last' = [pre |-> control_flow, queried |-> r.queried,
                            recv |-> r.recv, kills |-> r.kills,
                            opens |-> r.opens, notifs |-> Len(r.notes),
                            takes |-> IF panic THEN 0 ELSE d.takes,
                            err |-> IF r.kind = "Err" THEN r.err ELSE "None",
                            post |-> IF panic THEN "Panic" ELSE d.cf]
    /\ UNCHANGED <<arrived, menu, conv>>

----------------------------------------------------------------------------
\* The environment.

\* The child process exits by itself.
ChildExits ==
    /\ pc \in {"spawned", "loop"}
    /\ child_proc.state = "Running"
    /\ \E code \in ExitCodes :
        child_proc' = [child_proc EXCEPT !.state = "Exited", !.code = code]
    /\ UNCHANGED <<pc, control_flow, tray, menu_channel, arrived,
                   notifications, log, kill_attempts, open_attempts,
                   tray_takes, last, menu, conv>>

\* The user selects a menu item (or some other MenuEvent is delivered).
MenuEventArrives ==
    /\ pc = "loop"
    /\ tray = "Some"
    /\ arrived < MaxEvents
    /\ \E id \in EventIds : menu_channel' = Append(menu_channel, id)
    /\ arrived' = arrived + 1
    /\ UNCHANGED <<pc, control_flow, tray, child_proc, notifications, log,
                   kill_attempts, open_attempts, tray_takes, last, menu, conv>>

Next ==
    \/ InitLogging
    \/ BuildTray
    \/ SpawnProcess
    \/ StartNotification
    \/ Tick
    \/ ChildExits
    \/ MenuEventArrives

Spec == Init /\ [][Next]_vars

----------------------------------------------------------------------------
\* The conversions of TrayMessage on their own: from_str applied to an
\* identifier string, to_string applied to a variant, and each applied to
\* the other's result.

MaxParts == 2       \* an identifier is a concatenation of MaxParts pieces

Parts == {"", "Kill", "Show Logs", "Show", " ", "Logs", "kill", "show logs",
          "Kil", "l", "ShowLogs", "Restart"}

RECURSIVE Concats(_)
Concats(n) == IF n = 0 THEN {""} ELSE {a \o b : a \in Concats(n - 1), b \in Parts}

\* The identifier strings from_str is applied to.
Identifiers == Concats(MaxParts)

\* The variants as a set.
Variants == {VARIANTS[i] : i \in 1..Len(VARIANTS)}

ConvInit ==
    /\ pc = "init"
    /\ control_flow = "Poll"
    /\ tray = "None"
    /\ child_proc = [state |-> "NotSpawned", code |-> -1, reaped |-> FALSE]
    /\ menu_channel = <<>>
    /\ arrived = 0
    /\ notifications = <<>>
    /\ log = <<>>
    /\ kill_attempts = 0
    /\ open_attempts = 0
    /\ tray_takes = 0
    /\ last = NoTick
    /\ menu = <<>>
    /\ \/ \E s \in Identifiers : conv = [NoConv EXCEPT !.step = "ident", !.ident = s]
       \/ \E v \in Variants : conv = [NoConv EXCEPT !.step = "variant", !.msg = v]

ConvFrame ==
    UNCHANGED <<pc, control_flow, tray, child_proc, menu_channel, arrived,
                notifications, log, kill_attempts, open_attempts, tray_takes,
                last, menu>>

\* TrayMessage::from_str(ident)
Decode ==
    /\ conv.step = "ident"
    /\ conv' = [conv EXCEPT !.step = "decoded", !.parsed = FromStr(conv.ident)]
    /\ ConvFrame

\* Ok(msg) => msg.to_string()
Encode ==
    /\ conv.step = "decoded"
    /\ conv.parsed.ok
    /\ conv' = [conv EXCEPT !.step = "reencoded", !.msg = conv.parsed.msg,
                            !.label = to_string(conv.parsed.msg)]
    /\ ConvFrame

\* msg.to_string()
EncodeVariant ==
    /\ conv.step = "variant"
    /\ conv' = [conv EXCEPT !.step = "encoded", !.label = to_string(conv.msg)]
    /\ ConvFrame

\* TrayMessage::from_str(&label)
DecodeLabel ==
    /\ conv.step = "encoded"
    /\ conv' = [conv EXCEPT !.step = "redecoded", !.parsed = FromStr(conv.label)]
    /\ ConvFrame

ConvNext ==
    \/ Decode
    \/ Encode
    \/ EncodeVariant
    \/ DecodeLabel

ConvSpec == ConvInit /\ [][ConvNext]_vars

\* The same program with the event loop invoking the closure again and again.
FairSpec == Spec /\ WF_vars(Tick)

TypeOK ==
    /\ pc \in {"init", "logging", "tray_built", "spawned", "loop", "error", "panicked"}
    /\ control_flow \in {"Poll", "Exit"}
    /\ tray \in {"None", "Some"}
    /\ child_proc.state \in {"NotSpawned", "Running", "Exited", "Killed"}
    /\ Len(menu_channel) <= MaxEvents
    /\ arrived \in 0..MaxEvents

----------------------------------------------------------------------------
\* Properties.

\* s is an initial segment of t.
IsPrefix(s, t) == Len(s) <= Len(t) /\ \A i \in 1..Len(s) : s[i] = t[i]

\* The notifications shown so far with the given title.
Shown(title) == {i \in 1..Len(notifications) : notifications[i].title = title}

\* A step is an invocation of the closure whose try_wait returned w.
TickQueried(w) == Tick /\ last'.queried = w

\* C1: Terminated is absorbing.  From a state whose control flow is Exit no
\* step shows a notification, attempts a kill, takes the tray icon, queries
\* the child, writes a log record or removes an event from the channel, and
\* the control flow stays Exit; an invocation of the closure there returns at
\* the guard.  The child may still exit and events may still be queued.
C1_TerminatedAbsorbing ==
    [][control_flow = "Exit" =>
        /\ control_flow' = "Exit"
        /\ UNCHANGED <<notifications, kill_attempts, open_attempts,
                       tray_takes, tray, log, pc>>
        /\ child_proc'.reaped = child_proc.reaped
        /\ IsPrefix(menu_channel, menu_channel')
        /\ last' \in {last, GuardedTick}
        /\ (Tick => last' = GuardedTick /\ UNCHANGED <<child_proc, menu_channel>>)
    ]_vars

\* The closure was invoked after termination while the child had exited
\* unobserved and events were still queued.
C1_Witness ==
    /\ last = GuardedTick
    /\ menu_channel # <<>>
    /\ child_proc.state = "Exited"
    /\ ~child_proc.reaped

\* C2: exit detection has priority over menu events.  An invocation whose
\* try_wait reports the exit receives no event, leaves the channel as it was,
\* attempts no kill and opens no log directory, and the loop does not go on
\* polling after it (the control flow is Exit, or the program was aborted by
\* the panic of show_notification).
C2_ExitBeforeMenu ==
    [][TickQueried("Some") =>
        /\ last'.recv = "NoRecv"
        /\ UNCHANGED <<menu_channel, kill_attempts, open_attempts>>
        /\ last'.kills = 0 /\ last'.opens = 0
        /\ (control_flow' = "Exit" \/ pc' = "panicked")
    ]_vars

\* The exit was observed while a Kill event was at the head of the channel.
C2_Witness ==
    /\ last.queried = "Some"
    /\ control_flow = "Exit"
    /\ menu_channel # <<>>
    /\ Head(menu_channel) = "Kill"
    /\ kill_attempts = 0

\* C3: an invocation that observes the exit moves the loop from Active to
\* Terminated and shows exactly one "Process exited" notification with the
\* exit status, logging success for code 0 and failure otherwise; over a run
\* that notification is shown at most once and only by such an invocation.
C3_ExitNotifiedOnce ==
    /\ [][TickQueried("Some") =>
            /\ control_flow = "Poll" /\ control_flow' = "Exit"
            /\ notifications' = Append(notifications,
                   [title |-> "Process exited",
                    body |-> <<"Exit code", child_proc.code>>])
            /\ Len(log') = Len(log) + 2
            /\ log'[Len(log) + 1].level =
                   (IF child_proc.code = 0 THEN "info" ELSE "error")
        ]_vars
    /\ [][Shown("Process exited")' # Shown("Process exited") =>
            TickQueried("Some")]_vars
    /\ [](Cardinality(Shown("Process exited")) <= 1)

\* C4: whenever the loop is Terminated the tray icon has been released, and
\* it is released exactly once.
C4_TrayReleasedOnce ==
    control_flow = "Exit" => (tray = "None" /\ tray_takes = 1)

\* C5: an invocation that finds the child running and receives Kill attempts
\* exactly one kill and sets the control flow to Exit whether or not the kill
\* succeeded; over a run at most one kill is attempted, and only by an
\* invocation whose try_wait reported the child as running.
C5_KillOnceThenTerminate ==
    /\ [][(TickQueried("None") /\ last'.recv = "Kill") =>
            /\ kill_attempts' = kill_attempts + 1
            /\ last'.kills = 1
            /\ control_flow' = "Exit"
        ]_vars
    /\ [][kill_attempts' # kill_attempts => TickQueried("None")]_vars
    /\ [](kill_attempts <= 1)

\* A Kill was received, the kill attempt failed and the loop is Terminated.
C5_Witness ==
    /\ last.recv = "Kill"
    /\ last.err = "Failed to kill child process"
    /\ kill_attempts = 1
    /\ child_proc.state = "Running"
    /\ control_flow = "Exit"

\* C6: an invocation that finds the child running and receives ShowLogs
\* leaves the loop Active, opens the log directory exactly once and changes
\* nothing else.
C6_ShowLogsFrame ==
    [][(TickQueried("None") /\ last'.recv = "Show Logs") =>
        /\ control_flow' = "Poll"
        /\ last'.post = "Poll"
        /\ open_attempts' = open_attempts + 1
        /\ UNCHANGED <<kill_attempts, notifications, tray, tray_takes,
                       child_proc, pc>>
    ]_vars

\* C7: after a ShowLogs whose log directory could not be resolved or opened
\* the loop is still Active and the tray icon is still held.
C7_OpenFailureContinues ==
    (last.recv = "Show Logs" /\ last.err # "None") =>
        (control_flow = "Poll" /\ last.post = "Poll" /\ tray = "Some"
         /\ tray_takes = 0)

\* C8: after an event whose identifier does not decode the loop is still
\* Active, no kill was attempted and the tray icon is still held.
C8_DecodeFailureContinues ==
    (last.recv # "NoRecv" /\ ~FromStr(last.recv).ok) =>
        (control_flow = "Poll" /\ last.post = "Poll" /\ last.kills = 0
         /\ tray = "Some" /\ tray_takes = 0)

\* C9: a notification that fails to show never aborts the program.
C9_NotificationNeverAborts == pc # "panicked"

\* C10: an invocation whose try_wait fails logs the error, takes the tray
\* icon and sets the control flow to Exit, without a notification, without
\* receiving an event and without a kill attempt.
C10_QueryErrorTerminates ==
    [][TickQueried("Err") =>
        /\ control_flow' = "Exit"
        /\ tray' = "None"
        /\ tray_takes' = tray_takes + 1
        /\ log' = Append(log, [level |-> "error", text |-> "Error",
                               arg |-> "try_wait failed"])
        /\ last'.recv = "NoRecv"
        /\ UNCHANGED <<notifications, menu_channel, kill_attempts,
                       open_attempts, child_proc, pc>>
    ]_vars

\* The query failed while a Kill event was pending; the loop is Terminated.
C10_Witness ==
    /\ last.queried = "Err"
    /\ last.pre = "Poll"
    /\ control_flow = "Exit"
    /\ tray = "None"
    /\ menu_channel # <<>>
    /\ Head(menu_channel) = "Kill"

\* C11: from_str is total and never falls back to a default variant: applied
\* to "Kill" it returns Kill, applied to "Show Logs" it returns ShowLogs, and
\* applied to any other identifier it returns an error and no variant.
C11_DecoderTotal ==
    conv.step \in {"decoded", "reencoded"} =>
        /\ conv.ident = "Kill" => conv.parsed = [ok |-> TRUE, msg |-> "Kill"]
        /\ conv.ident = "Show Logs" => conv.parsed = [ok |-> TRUE, msg |-> "ShowLogs"]
        /\ conv.ident \notin {"Kill", "Show Logs"} =>
               (~conv.parsed.ok /\ conv.parsed.msg \notin Variants)

\* An identifier that differs from a label by a trailing space was rejected.
C11_Witness ==
    /\ conv.step = "decoded"
    /\ conv.ident = "Kill "
    /\ ~conv.parsed.ok

\* C12: a variant encoded to its label and decoded again is the same variant,
\* and a label decoded to its variant and encoded again is the same label.
C12_RoundTrip ==
    /\ conv.step = "redecoded" =>
           (conv.parsed.ok /\ conv.parsed.msg = conv.msg)
    /\ conv.step = "reencoded" =>
           (conv.label = conv.ident /\ conv.ident \in {"Kill", "Show Logs"})

\* ShowLogs went to "Show Logs" and back.
C12_Witness ==
    /\ conv.step = "redecoded"
    /\ conv.msg = "ShowLogs"
    /\ conv.label = "Show Logs"
    /\ conv.parsed.ok

\* C13: once the child has exited while the loop is Active, and the closure
\* keeps being invoked, the loop eventually reports Terminate (the tick that
\* observes the exit shows the one "Process exited" notification and sets
\* the control flow to Exit).
C13_ExitEventuallyReported ==
    (pc = "loop" /\ control_flow = "Poll" /\ child_proc.state = "Exited")
        ~> (control_flow = "Exit"
            /\ (last.queried = "Some" => Cardinality(Shown("Process exited")) = 1))

\* C14: an invocation of the closure removes at most one event from the
\* channel, and always from its head; it removes exactly one when the loop is
\* Active, the exit check reports the child as still running and an event is
\* pending.  The events behind it stay queued in their order, and no other
\* step removes an event.
C14_OneEventPerTick ==
    /\ [][Tick =>
            /\ menu_channel' \in {menu_channel} \cup
                   (IF menu_channel = <<>> THEN {} ELSE {Tail(menu_channel)})
            /\ (last'.queried = "None" /\ menu_channel # <<>>) =>
                   /\ menu_channel' = Tail(menu_channel)
                   /\ last'.recv = Head(menu_channel)
            /\ last'.recv = "NoRecv" => menu_channel' = menu_channel
        ]_vars
    /\ [][~Tick => IsPrefix(menu_channel, menu_channel')]_vars

\* A ShowLogs was received while two more events were queued behind it; they
\* are still queued.
C14_Witness ==
    /\ last.recv = "Show Logs"
    /\ last.post = "Poll"
    /\ Len(menu_channel) = 2
    /\ menu_channel[1] = "Restart"
    /\ menu_channel[2] = "Kill"

\* The calls of show_notification so far with the given title, shown or not.
Issued(title) ==
    {i \in 1..Len(log) :
        log[i].text = "Showing notification" /\ log[i].arg = title}

\* C15: "Process started!" is issued at most once, only after the child was
\* spawned and before any invocation of the closure; a run that enters the
\* loop has issued it exactly once and shows it as its first notification.
\* When main returns an error (spawn failure included) no invocation of the
\* closure ever happens and neither notification is issued.
C15_StartNotifiedOnce ==
    /\ [](/\ Cardinality(Issued("Process started!")) <= 1
          /\ Issued("Process started!") # {} => child_proc.state # "NotSpawned"
          /\ (pc = "loop" \/ last # NoTick) =>
                /\ Cardinality(Issued("Process started!")) = 1
                /\ Cardinality(Shown("Process started!")) = 1
                /\ notifications[1].title = "Process started!"
          /\ pc = "error" =>
                /\ last = NoTick
                /\ notifications = <<>>
                /\ Issued("Process started!") = {}
                /\ Issued("Process exited") = {})
    /\ [][Issued("Process started!")' # Issued("Process started!") =>
            (pc = "spawned" /\ last = NoTick)]_vars
    /\ [][pc = "error" => UNCHANGED vars]_vars

\* The start notification was shown once, ticks have run and the exit
\* notification followed it.
C15_Witness ==
    /\ last # NoTick
    /\ Len(notifications) = 2
    /\ notifications[1].title = "Process started!"
    /\ notifications[2].title = "Process exited"

\* The identifiers carried by the items of the built menu.
MenuIds == {menu[i].id : i \in 1..Len(menu)}

\* C16: the menu built at startup has exactly two items, labelled "Kill" and
\* "Show Logs" in that order; the identifier of each item decodes to the
\* variant the item was built from, and an event carrying the identifier of
\* an item of the menu never ends in a decode error.
C16_MenuRoundTrips ==
    /\ pc \in {"tray_built", "spawned", "loop", "panicked"} =>
        /\ Len(menu) = 2
        /\ menu[1].text = "Kill"
        /\ menu[2].text = "Show Logs"
        /\ \A i \in 1..Len(menu) :
              FromStr(menu[i].id) = [ok |-> TRUE, msg |-> VARIANTS[i]]
    /\ last.recv \in MenuIds =>
        (last.err # "VariantNotFound" /\ FromStr(last.recv).ok)

\* An event carrying the identifier of the second item was received and
\* handled as ShowLogs.
C16_Witness ==
    /\ Len(menu) = 2
    /\ last.recv = menu[2].id
    /\ last.opens = 1
    /\ last.err = "None"
    /\ last.post = "Poll"

\* C17: the loop becomes Terminated only for a stated cause: the invocation
\* that sets the control flow to Exit observed the child as exited, or its
\* query failed, or it received Kill and attempted the kill.
C17_TerminatesOnlyForCause ==
    (last.pre = "Poll" /\ last.post = "Exit") =>
        \/ last.queried \in {"Some", "Err"}
        \/ (last.recv = "Kill" /\ last.kills = 1)

\* C18: an idle invocation changes nothing: when the loop is Active, the exit
\* check reports the child as still running and no event is pending, the
\* control flow stays Poll and the channel, the process handle, the tray
\* cell, the notifications, the log and the kill and open counts are as
\* before.
C18_IdleTickFrame ==
    [][(TickQueried("None") /\ menu_channel = <<>>) =>
        /\ control_flow' = "Poll"
        /\ last'.post = "Poll"
        /\ last'.recv = "NoRecv"
        /\ UNCHANGED <<menu_channel, child_proc, tray, tray_takes,
                       notifications, kill_attempts, open_attempts, log, pc>>
    ]_vars

\* An idle invocation happened while the child was running.
C18_Witness ==
    /\ last.pre = "Poll"
    /\ last.queried = "None"
    /\ last.recv = "NoRecv"
    /\ last.post = "Poll"
    /\ child_proc.state = "Running"
    /\ menu_channel = <<>>

\* The position of the first Kill in a queue of identifiers, 0 if none.
FirstKill(q) ==
    IF \E i \in 1..Len(q) : q[i] = "Kill"
    THEN CHOOSE i \in 1..Len(q) :
            q[i] = "Kill" /\ \A j \in 1..(i - 1) : q[j] # "Kill"
    ELSE 0

\* C19: a queued Kill is answered within a bounded number of invocations.
\* While the loop is Active every invocation either ends the loop (control
\* flow Exit, or the program aborted by a panic) or moves the first queued
\* Kill one place towards the head, and an invocation that finds it at the
\* head ends the loop; no other step moves or removes it.  Hence a Kill
\* behind n events is answered after at most n + 1 invocations, and with the
\* closure invoked again and again the loop does end.
C19_KillAnsweredInTime ==
    /\ [][(Tick /\ control_flow = "Poll" /\ FirstKill(menu_channel) > 0) =>
            \/ control_flow' = "Exit"
            \/ pc' = "panicked"
            \/ /\ FirstKill(menu_channel) > 1
               /\ FirstKill(menu_channel') = FirstKill(menu_channel) - 1
        ]_vars
    /\ [][(~Tick /\ FirstKill(menu_channel) > 0) =>
            FirstKill(menu_channel') = FirstKill(menu_channel)]_vars
    /\ ((pc = "loop" /\ FirstKill(menu_channel) > 0)
            ~> (control_flow = "Exit" \/ pc = "panicked"))

\* A Kill queued behind two ShowLogs was reached on the third invocation and
\* ended the loop.
C19_Witness ==
    /\ arrived = 3
    /\ open_attempts = 2
    /\ last.recv = "Kill"
    /\ kill_attempts = 1
    /\ control_flow = "Exit"
    /\ menu_channel = <<>>

====
